---- MODULE Spec2Model ----
(***************************************************************************)
(* Model of ppcan.py: a receive thread (receiveCan) that decodes CAN       *)
(* frames into the shared dictionary canData under canDataLock, and the    *)
(* curses loop (pcanCursesGui) that scrolls and renders that dictionary.   *)
(***************************************************************************)
EXTENDS Integers, Sequences, FiniteSets, TLC

(***************************************************************************)
(* Bounds of the model.                                                    *)
(***************************************************************************)
\* frames received from the bus in one run
MaxFrames == 3
\* frames received from the bus in one run of the fair specification
MaxFairFrames == 2
\* render ticks in one run of the scroll specification
MaxTicks == 5
\* the run of page-forward ticks is counted up to MaxRun
MaxRun == 4
\* frames received from the bus in one run of the decoding specification
MaxDecodeFrames == 2
\* largest payload byte of the decoding specification
MaxByte == 5

(***************************************************************************)
(* Program constants.                                                      *)
(***************************************************************************)
padHeight == 5000
KEY_DOWN == 258
KEY_UP == 259
KEY_LEFT == 260
KEY_RIGHT == 261
KEY_NPAGE == 338
KEY_PPAGE == 339
KEY_SPACE == 32
KEY_Q == 113
KEY_ESC == 27
KEY_ZERO == 48
NoKey == -1
badKeys == {-1, 0, 9, 13, 10}

None == "None"

VARIABLES
    canData,      \* the shared dictionary: id -> CanMsg
    canDataLock,  \* TRUE while the threading.Lock is held
    ipc,          \* position of the receive thread
    msg,          \* receiveCan: the frame returned by bus.recv()
    decodedMsg,   \* receiveCan: the decoded (or fallback) message
    currTime,     \* CanMsg.update: the local currTime
    rpc,          \* position of the curses loop
    key,          \* pcanCursesGui: key
    height,       \* pcanCursesGui: height
    padY,         \* pcanCursesGui: padY
    ids,          \* pcanCursesGui: ids still to format in the comprehension
    body,         \* rows formatted so far for pad.addstr
    applied,      \* history: the frames applied so far, with their time
    ticks,        \* history: tick counter of the scroll specification
    fwdRun        \* history: consecutive page-forward ticks at one height

vars == <<canData, canDataLock, ipc, msg, decodedMsg, currTime, rpc, key,
          height, padY, ids, body, applied, ticks, fwdRun>>

ingestVars == <<ipc, msg, decodedMsg, currTime>>
renderVars == <<rpc, key, height, padY, ids, body, fwdRun>>

Max(a, b) == IF a >= b THEN a ELSE b
Min(a, b) == IF a <= b THEN a ELSE b

(***************************************************************************)
(* The bus and the layout store.                                           *)
(***************************************************************************)
BusIds == {1, 2}
\* payloads of length 0 and 1
Payloads == {<<>>, <<1>>}
\* a frame of message 4, whose layout entry is ill-typed (see dbcJson)
BrokenFrame == [arbitration_id |-> 4, dlc |-> 1, data |-> <<1>>]
Frames == {[arbitration_id |-> i, dlc |-> Len(d), data |-> d] :
              i \in BusIds, d \in Payloads} \cup {BrokenFrame}
\* the values time.time() returns (seconds); the wall clock may step back
Times == {0, 1}

\* dbcJson.data['messages'].  Messages 1, 3 and 4 are known and one byte
\* long; a signal has a scale and an offset (in tenths), may be multiplexed
\* (mux >= 0) and may have an "enums" entry.  The keys of an enum table are
\* strings, held as sequences of characters.  The "enums" entry of message 4
\* is a number instead of a table: a file json.loads accepts.
NoEnums == [hasEnums |-> FALSE, enumsIsTable |-> FALSE, enums |-> <<>>]

EnumTable(t) == [hasEnums |-> TRUE, enumsIsTable |-> TRUE, enums |-> t]

Signal(name, unit, factor, offset, mux, e) ==
    [name |-> name, unit |-> unit, factor |-> factor, offset |-> offset,
     mux |-> mux, hasEnums |-> e.hasEnums, enumsIsTable |-> e.enumsIsTable,
     enums |-> e.enums]

dbcJson ==
    [m \in {1, 3, 4} |->
        CASE m = 1 ->
               [name |-> "ENGINE", length |-> 1,
                signals |-> <<
                   Signal("speed", "kph", 5, 0, -1, NoEnums),
                   Signal("aux", None, 10, 0, 0, NoEnums),
                   Signal("mode", None, 10, 0, -1,
                          EnumTable([k \in {<<"0">>, <<"1">>} |->
                                       IF k = <<"0">> THEN "OFF" ELSE "ON"]))
                >>]
          [] m = 3 ->
               [name |-> "CLIMATE", length |-> 1,
                signals |-> <<
                   Signal("temp", "C", 5, -15, -1,
                          EnumTable([k \in {<<"-", "1">>, <<"0">>} |->
                                       IF k = <<"0">> THEN "MILD"
                                       ELSE "COLD"])),
                   Signal("zone", None, 10, 0, 1, NoEnums),
                   Signal("fan", None, 10, 0, -1, EnumTable(<<>>)),
                   Signal("gear", None, 15, 0, -1,
                          EnumTable([k \in {<<"1">>, <<"3">>} |->
                                       IF k = <<"1">> THEN "LOW"
                                       ELSE "HIGH"]))
                >>]
          [] m = 4 ->
               [name |-> "BROKEN", length |-> 1,
                signals |-> <<
                   Signal("level", None, 10, 0, -1,
                          [hasEnums |-> TRUE, enumsIsTable |-> FALSE,
                           enums |-> <<>>])
                >>]]

(***************************************************************************)
(* Decoding: caneton.message_decode seen from its call in receiveCan, and  *)
(* the CanSignal objects built from its result.  A numeric value is kept   *)
(* in tenths (factor 5 is a scale of 0.5).                                 *)
(***************************************************************************)
NoSignal == [none |-> TRUE, name |-> "", value |-> 0, unit |-> ""]

\* one entry of the decoder's signal list: None for a multiplexed signal
\* whose group is not the selected one (the selector is byte 0)
RawSignal(s, data) ==
    IF s.mux >= 0 /\ s.mux # data[1]
    THEN NoSignal
    ELSE [none |-> FALSE, name |-> s.name,
          value |-> data[1] * s.factor + s.offset, unit |-> s.unit]

\* TRUE when message_decode raises MessageNotFound or DecodingError
DecodeRaises(m) ==
    \/ m.arbitration_id \notin DOMAIN dbcJson
    \/ m.dlc # dbcJson[m.arbitration_id].length

message_decode(m) ==
    LET info == dbcJson[m.arbitration_id]
    IN  [id |-> m.arbitration_id, name |-> info.name, raw_data |-> m.data,
         signals |-> [i \in 1..Len(info.signals) |->
                         RawSignal(info.signals[i], m.data)]]

\* Decode whose fallback loses the payload
DecodeDropsPayload(m) ==
    IF DecodeRaises(m)
    THEN [id |-> m.arbitration_id, name |-> None, raw_data |-> <<>>,
          signals |-> <<NoSignal>>]
    ELSE message_decode(m)

\* lines 109-121: the decoded message, or the fallback of the except branch
Decode(m) ==
    IF DecodeRaises(m)
    THEN [id |-> m.arbitration_id, name |-> None, raw_data |-> m.data,
          signals |-> <<NoSignal>>]
    ELSE message_decode(m)

Digit(d) == CASE d = 0 -> "0" [] d = 1 -> "1" [] d = 2 -> "2" [] d = 3 -> "3"
              [] d = 4 -> "4" [] d = 5 -> "5" [] d = 6 -> "6" [] d = 7 -> "7"
              [] d = 8 -> "8" [] d = 9 -> "9"

\* str(n) for an integer n, as the sequence of its characters
RECURSIVE IntToStr(_)
IntToStr(n) ==
    IF n < 0 THEN <<"-">> \o IntToStr(-n)
    ELSE IF n < 10 THEN <<Digit(n)>>
    ELSE IntToStr(n \div 10) \o <<Digit(n % 10)>>

\* IntOf that rounds down
IntOfFloor(tenths) == tenths \div 10

\* int(value): truncation toward zero of a value held in tenths
IntOf(tenths) == IF tenths >= 0 THEN tenths \div 10 ELSE -((-tenths) \div 10)

\* CanDbcJson.signalEnums: the signal's enum table, or None
signalEnums(msgId, signal) ==
    LET sigs == dbcJson[msgId].signals
        i == CHOOSE j \in 1..Len(sigs) : sigs[j].name = signal
    IN  [has |-> sigs[i].hasEnums, isTable |-> sigs[i].enumsIsTable,
         table |-> sigs[i].enums]

\* TRUE when CanSignal.decodeEnums raises: line 74 takes a number for a
\* table and line 77 asks whether a string is in it
CanSignalRaises(enums) == enums.has /\ ~enums.isTable

\* CanSignal.__init__ with decodeEnums
CanSignal(name, value, unit, enums) ==
    LET keys == IF enums.has THEN DOMAIN enums.table ELSE {}
        value_ == IntToStr(IntOf(value))
    IN  IF keys # {} /\ value_ \in keys
        THEN [name |-> name, kind |-> "str", num |-> 0,
              str |-> enums.table[value_], raw |-> value, unit |-> unit]
        ELSE [name |-> name, kind |-> "num", num |-> value, str |-> "",
              raw |-> value, unit |-> unit]

\* FilterSignals that hands the kept entries back last first
RECURSIVE FilterSignalsReversed(_)
FilterSignalsReversed(rawSignals) ==
    IF rawSignals = <<>> THEN <<>>
    ELSE IF Head(rawSignals).none THEN FilterSignalsReversed(Tail(rawSignals))
    ELSE FilterSignalsReversed(Tail(rawSignals)) \o <<Head(rawSignals)>>

\* filter(lambda x: x, rawSignals), order kept
RECURSIVE FilterSignals(_)
FilterSignals(rawSignals) ==
    IF rawSignals = <<>> THEN <<>>
    ELSE IF Head(rawSignals).none THEN FilterSignals(Tail(rawSignals))
    ELSE <<Head(rawSignals)>> \o FilterSignals(Tail(rawSignals))

canetonSignalsToObj(msgId, rawSignals) ==
    LET kept == FilterSignals(rawSignals)
    IN  [i \in 1..Len(kept) |->
            CanSignal(kept[i].name, kept[i].value, kept[i].unit,
                      signalEnums(msgId, kept[i].name))]

\* TRUE when canetonSignalsToObj raises for the decoded message d
BuildRaises(d) ==
    LET kept == FilterSignals(d.signals)
    IN  \E i \in 1..Len(kept) :
           CanSignalRaises(signalEnums(d.id, kept[i].name))

(***************************************************************************)
(* CanMsg.                                                                 *)
(***************************************************************************)
\* CanMsg.__init__, time.time() returning t
CanMsgInit(id, data, name, signals, t) ==
    [id |-> id, data |-> data, name |-> name, signals |-> signals,
     delta |-> 0, time |-> t, count |-> 1]

\* UpdateDelta computed after self.time was overwritten
UpdateDeltaAfterTime(self, t) == (t - t) * 1000

\* line 53: self.delta = (currTime - self.time) * 1000
UpdateDelta(self, t) == (t - self.time) * 1000

\* UpdateCount that restarts the count
UpdateCountReset(self) == 1

\* line 55: self.count += 1
UpdateCount(self) == self.count + 1

\* CanMsg.update as a whole, time.time() returning t
CanMsgUpdate(self, data, signals, t) ==
    [self EXCEPT !.data = data, !.signals = signals,
                 !.delta = UpdateDelta(self, t), !.time = t,
                 !.count = UpdateCount(self)]

\* lines 125-132 as one step: the table after one decoded frame is applied
applyFrame(table, d, t) ==
    LET sigs == canetonSignalsToObj(d.id, d.signals)
    IN  IF d.id \notin DOMAIN table
        THEN [i \in DOMAIN table \cup {d.id} |->
                 IF i = d.id THEN CanMsgInit(d.id, d.raw_data, d.name, sigs, t)
                 ELSE table[i]]
        ELSE [table EXCEPT ![d.id] = CanMsgUpdate(@, d.raw_data, sigs, t)]

\* sorted(canData.keys())
RECURSIVE Sorted(_)
Sorted(S) ==
    IF S = {} THEN <<>>
    ELSE LET m == CHOOSE x \in S : \A y \in S : x <= y
         IN  <<m>> \o Sorted(S \ {m})

\* the table after the frames of history h are applied in order
RECURSIVE Replay(_)
Replay(h) ==
    IF h = <<>> THEN <<>>
    ELSE LET n == Len(h)
         IN  applyFrame(Replay(SubSeq(h, 1, n - 1)), Decode(h[n].frame),
                        h[n].time)

(***************************************************************************)
(* Initial state: main() has started the receive thread and entered the    *)
(* curses loop (lines 142-145: padY = 0, key = 0).                         *)
(***************************************************************************)
NoMsg == [arbitration_id |-> 0, dlc |-> 0, data |-> <<>>]

Init ==
    /\ canData = <<>>
    /\ canDataLock = FALSE
    /\ ipc = "open"
    /\ msg = NoMsg
    /\ decodedMsg = Decode(NoMsg)
    /\ currTime = 0
    /\ rpc = "while"
    /\ key = 0
    /\ height = 0
    /\ padY = 0
    /\ ids = <<>>
    /\ body = <<>>
    /\ applied = <<>>
    /\ ticks = 0
    /\ fwdRun = 0

(***************************************************************************)
(* The receive thread, receiveCan.                                         *)
(***************************************************************************)
\* lines 103-104: the bus is opened and the layout file loaded
IngestOpen ==
    /\ ipc = "open"
    /\ ipc' = "recv"
    /\ UNCHANGED <<canData, canDataLock, msg, decodedMsg, currTime, applied,
                   ticks>>
    /\ UNCHANGED renderVars

\* lines 103-104 raise: the thread ends before its loop
IngestOpenFail ==
    /\ ipc = "open"
    /\ ipc' = "openfailed"
    /\ UNCHANGED <<canData, canDataLock, msg, decodedMsg, currTime, applied,
                   ticks>>
    /\ UNCHANGED renderVars

\* lines 107-121: bus.recv() returns a frame, which is decoded; the bus
\* delivers at most n frames, out of F
IngestRecvOf(n, F) ==
    /\ ipc = "recv"
    /\ Len(applied) < n
    /\ \E m \in F :
          /\ msg' = m
          /\ decodedMsg' = Decode(m)
    /\ ipc' = "acquire"
    /\ UNCHANGED <<canData, canDataLock, currTime, applied, ticks>>
    /\ UNCHANGED renderVars

IngestRecv(n) == IngestRecvOf(n, Frames)

\* line 107 raises: the exception ends the thread, and only the thread
IngestRecvFail ==
    /\ ipc = "recv"
    /\ ipc' = "recvfailed"
    /\ UNCHANGED <<canData, canDataLock, msg, decodedMsg, currTime, applied,
                   ticks>>
    /\ UNCHANGED renderVars

\* IngestAcquire without the wait: the writer enters while the lock is held
IngestAcquireNoWait ==
    /\ ipc = "acquire"
    /\ canDataLock' = TRUE
    /\ ipc' = "apply"
    /\ UNCHANGED <<canData, msg, decodedMsg, currTime, applied, ticks>>
    /\ UNCHANGED renderVars

\* line 123: canDataLock.acquire()
IngestAcquire ==
    /\ ipc = "acquire"
    /\ ~canDataLock
    /\ canDataLock' = TRUE
    /\ ipc' = "apply"
    /\ UNCHANGED <<canData, msg, decodedMsg, currTime, applied, ticks>>
    /\ UNCHANGED renderVars

\* IngestInsert that rebuilds the dictionary with the new record alone
IngestInsertAlone ==
    /\ ipc = "apply"
    /\ ~BuildRaises(decodedMsg)
    /\ msg.arbitration_id \notin DOMAIN canData
    /\ \E t \in Times :
          /\ canData' =
                [i \in {msg.arbitration_id} |->
                    CanMsgInit(decodedMsg.id, decodedMsg.raw_data,
                               decodedMsg.name,
                               canetonSignalsToObj(decodedMsg.id,
                                                   decodedMsg.signals),
                               t)]
          /\ applied' = Append(applied, [frame |-> msg, time |-> t])
    /\ ipc' = "release"
    /\ UNCHANGED <<canDataLock, msg, decodedMsg, currTime, ticks>>
    /\ UNCHANGED renderVars

\* lines 129, 132: canetonSignalsToObj raises while the lock is held; no
\* try/finally releases it, and the exception ends the thread
IngestBuildFail ==
    /\ ipc = "apply"
    /\ BuildRaises(decodedMsg)
    /\ ipc' = "buildfailed"
    /\ UNCHANGED <<canData, canDataLock, msg, decodedMsg, currTime, applied,
                   ticks>>
    /\ UNCHANGED renderVars

\* lines 125-129: the id is new, a CanMsg is built and stored
IngestInsert ==
    /\ ipc = "apply"
    /\ ~BuildRaises(decodedMsg)
    /\ msg.arbitration_id \notin DOMAIN canData
    /\ \E t \in Times :
          /\ canData' =
                [i \in DOMAIN canData \cup {msg.arbitration_id} |->
                    IF i = msg.arbitration_id
                    THEN CanMsgInit(decodedMsg.id, decodedMsg.raw_data,
                                    decodedMsg.name,
                                    canetonSignalsToObj(decodedMsg.id,
                                                        decodedMsg.signals),
                                    t)
                    ELSE canData[i]]
          /\ applied' = Append(applied, [frame |-> msg, time |-> t])
    /\ ipc' = "release"
    /\ UNCHANGED <<canDataLock, msg, decodedMsg, currTime, ticks>>
    /\ UNCHANGED renderVars

\* IngestUpdateData that takes the name of the new frame too
IngestUpdateDataRenames ==
    /\ ipc = "apply"
    /\ ~BuildRaises(decodedMsg)
    /\ msg.arbitration_id \in DOMAIN canData
    /\ canData' = [canData EXCEPT ![msg.arbitration_id].data =
                                      decodedMsg.raw_data,
                                  ![msg.arbitration_id].name =
                                      decodedMsg.name]
    /\ ipc' = "upd_signals"
    /\ UNCHANGED <<canDataLock, msg, decodedMsg, currTime, applied, ticks>>
    /\ UNCHANGED renderVars

\* lines 131, 49: self.data = data
IngestUpdateData ==
    /\ ipc = "apply"
    /\ ~BuildRaises(decodedMsg)
    /\ msg.arbitration_id \in DOMAIN canData
    /\ canData' = [canData EXCEPT ![msg.arbitration_id].data =
                                      decodedMsg.raw_data]
    /\ ipc' = "upd_signals"
    /\ UNCHANGED <<canDataLock, msg, decodedMsg, currTime, applied, ticks>>
    /\ UNCHANGED renderVars

\* IngestUpdateSignals that keeps the signals of the frame before
IngestUpdateSignalsStale ==
    /\ ipc = "upd_signals"
    /\ ipc' = "upd_delta"
    /\ UNCHANGED <<canData, canDataLock, msg, decodedMsg, currTime, applied,
                   ticks>>
    /\ UNCHANGED renderVars

\* line 50: self.signals = signals
IngestUpdateSignals ==
    /\ ipc = "upd_signals"
    /\ canData' = [canData EXCEPT ![msg.arbitration_id].signals =
                      canetonSignalsToObj(decodedMsg.id, decodedMsg.signals)]
    /\ ipc' = "upd_delta"
    /\ UNCHANGED <<canDataLock, msg, decodedMsg, currTime, applied, ticks>>
    /\ UNCHANGED renderVars

\* lines 52-53: currTime = time.time(); self.delta = ...
IngestUpdateDelta ==
    /\ ipc = "upd_delta"
    /\ \E t \in Times :
          /\ currTime' = t
          /\ canData' = [canData EXCEPT ![msg.arbitration_id].delta =
                            UpdateDelta(canData[msg.arbitration_id], t)]
    /\ ipc' = "upd_time"
    /\ UNCHANGED <<canDataLock, msg, decodedMsg, applied, ticks>>
    /\ UNCHANGED renderVars

\* line 54: self.time = currTime
IngestUpdateTime ==
    /\ ipc = "upd_time"
    /\ canData' = [canData EXCEPT ![msg.arbitration_id].time = currTime]
    /\ ipc' = "upd_count"
    /\ UNCHANGED <<canDataLock, msg, decodedMsg, currTime, applied, ticks>>
    /\ UNCHANGED renderVars

\* line 55: self.count += 1, which completes the update
IngestUpdateCount ==
    /\ ipc = "upd_count"
    /\ canData' = [canData EXCEPT ![msg.arbitration_id].count =
                      UpdateCount(canData[msg.arbitration_id])]
    /\ applied' = Append(applied, [frame |-> msg, time |-> currTime])
    /\ ipc' = "release"
    /\ UNCHANGED <<canDataLock, msg, decodedMsg, currTime, ticks>>
    /\ UNCHANGED renderVars

\* line 134: canDataLock.release(), back to bus.recv()
IngestRelease ==
    /\ ipc = "release"
    /\ canDataLock' = FALSE
    /\ ipc' = "recv"
    /\ UNCHANGED <<canData, msg, decodedMsg, currTime, applied, ticks>>
    /\ UNCHANGED renderVars

(***************************************************************************)
(* The curses loop, pcanCursesGui.                                         *)
(***************************************************************************)
QuitKeys == {KEY_Q, KEY_ESC}
PageFwdKeys == {KEY_RIGHT, KEY_NPAGE, KEY_SPACE}
PageBackKeys == {KEY_LEFT, KEY_PPAGE}

\* Moved where a key without a binding scrolls like Down
MovedAnyKeyDown(y, k, h) ==
    IF k = KEY_UP THEN y - 1
    ELSE IF k \in PageFwdKeys THEN y + h
    ELSE IF k \in PageBackKeys THEN y - h
    ELSE IF k = NoKey THEN y
    ELSE y + 1

\* Moved that has no binding for Up
MovedNoUp(y, k, h) ==
    IF k = KEY_DOWN THEN y + 1
    ELSE IF k \in PageFwdKeys THEN y + h
    ELSE IF k \in PageBackKeys THEN y - h
    ELSE y

\* Moved with a page of one line less
MovedShortPage(y, k, h) ==
    IF k = KEY_DOWN THEN y + 1
    ELSE IF k = KEY_UP THEN y - 1
    ELSE IF k \in PageFwdKeys THEN y + h - 1
    ELSE IF k \in PageBackKeys THEN y - h + 1
    ELSE y

\* lines 163-170: padY after the key is interpreted
Moved(y, k, h) ==
    IF k = KEY_DOWN THEN y + 1
    ELSE IF k = KEY_UP THEN y - 1
    ELSE IF k \in PageFwdKeys THEN y + h
    ELSE IF k \in PageBackKeys THEN y - h
    ELSE y

\* Clamp without the lower bound
ClampNoFloor(y, h) == Min(padHeight - h, y)

\* line 172: padY = max(0, min(padHeight-height, padY))
Clamp(y, h) == Max(0, Min(padHeight - h, y))

\* RenderLoopTest that tests 'q' only
RenderLoopTestOnlyQ ==
    /\ rpc = "while"
    /\ rpc' = IF key # KEY_Q THEN "poll" ELSE "exited"
    /\ UNCHANGED <<canData, canDataLock, key, height, padY, ids, body,
                   applied, ticks, fwdRun>>
    /\ UNCHANGED ingestVars

\* line 157: the loop condition
RenderLoopTest ==
    /\ rpc = "while"
    /\ rpc' = IF key \notin QuitKeys THEN "poll" ELSE "exited"
    /\ UNCHANGED <<canData, canDataLock, key, height, padY, ids, body,
                   applied, ticks, fwdRun>>
    /\ UNCHANGED ingestVars

\* lines 159-190: the size and the key are read, padY is moved and clamped,
\* the bars are drawn; stdscr.getch() returns k (NoKey after the timeout)
RenderPoll(keys, heights) ==
    /\ rpc = "poll"
    /\ \E h \in heights, k \in keys :
          /\ height' = h
          /\ padY' = Clamp(Moved(padY, k, h), h)
          /\ key' = IF k \in badKeys THEN KEY_ZERO ELSE k
          /\ fwdRun' = IF k \notin PageFwdKeys THEN 0
                       ELSE IF h = height /\ fwdRun > 0
                            THEN Min(fwdRun + 1, MaxRun)
                            ELSE 1
    /\ rpc' = "acquire"
    /\ UNCHANGED <<canData, canDataLock, ids, body, applied>>
    /\ UNCHANGED ingestVars

\* RenderAcquire without the wait: the reader enters while the lock is held
RenderAcquireNoWait ==
    /\ rpc = "acquire"
    /\ canDataLock' = TRUE
    /\ ids' = Sorted(DOMAIN canData)
    /\ body' = <<>>
    /\ rpc' = "format"
    /\ UNCHANGED <<canData, key, height, padY, applied, ticks, fwdRun>>
    /\ UNCHANGED ingestVars

\* lines 192-193: canDataLock.acquire(), then sorted(canData.keys())
RenderAcquire ==
    /\ rpc = "acquire"
    /\ ~canDataLock
    /\ canDataLock' = TRUE
    /\ ids' = Sorted(DOMAIN canData)
    /\ body' = <<>>
    /\ rpc' = "format"
    /\ UNCHANGED <<canData, key, height, padY, applied, ticks, fwdRun>>
    /\ UNCHANGED ingestVars

\* line 193: str(canData[id]) for the next id
RenderFormatRow ==
    /\ rpc = "format"
    /\ ids # <<>>
    /\ body' = Append(body, canData[Head(ids)])
    /\ ids' = Tail(ids)
    /\ UNCHANGED <<canData, canDataLock, rpc, key, height, padY, applied,
                   ticks, fwdRun>>
    /\ UNCHANGED ingestVars

\* lines 193-194: pad.addstr of the joined rows, canDataLock.release()
RenderRelease ==
    /\ rpc = "format"
    /\ ids = <<>>
    /\ canDataLock' = FALSE
    /\ rpc' = "refresh"
    /\ UNCHANGED <<canData, key, height, padY, ids, body, applied, ticks,
                   fwdRun>>
    /\ UNCHANGED ingestVars

\* lines 196-197: the pad is shown; the next tick builds a new one
RenderRefresh ==
    /\ rpc = "refresh"
    /\ body' = <<>>
    /\ rpc' = "while"
    /\ UNCHANGED <<canData, canDataLock, key, height, padY, ids, applied,
                   ticks, fwdRun>>
    /\ UNCHANGED ingestVars

(***************************************************************************)
(* Specifications.                                                         *)
(***************************************************************************)
\* the keys and sizes the terminal delivers while the bus is live
BusKeys == {NoKey, KEY_Q, KEY_ESC}
BusHeights == {padHeight}

\* the keys and sizes the terminal delivers in the scroll specification
ScrollKeys == {NoKey, 9, 97, KEY_DOWN, KEY_UP, KEY_RIGHT, KEY_NPAGE, KEY_SPACE,
               KEY_LEFT, KEY_PPAGE, KEY_Q, KEY_ESC}
ScrollHeights == {1250, 2000, padHeight, 6000}

BusTick ==
    /\ RenderPoll(BusKeys, BusHeights)
    /\ UNCHANGED ticks

BusRecv == IngestRecv(MaxFrames)

FairBusRecv == IngestRecv(MaxFairFrames)

ScrollTick ==
    /\ ticks < MaxTicks
    /\ RenderPoll(ScrollKeys, ScrollHeights)
    /\ ticks' = ticks + 1

Next ==
    \/ IngestOpen
    \/ IngestOpenFail
    \/ BusRecv
    \/ IngestRecvFail
    \/ IngestAcquire
    \/ IngestBuildFail
    \/ IngestInsert
    \/ IngestUpdateData
    \/ IngestUpdateSignals
    \/ IngestUpdateDelta
    \/ IngestUpdateTime
    \/ IngestUpdateCount
    \/ IngestRelease
    \/ RenderLoopTest
    \/ BusTick
    \/ RenderAcquire
    \/ RenderFormatRow
    \/ RenderRelease
    \/ RenderRefresh

\* both threads, the bus live
Spec == Init /\ [][Next]_vars

\* the curses loop alone, the receive thread waiting in bus.recv()
NextScroll ==
    \/ RenderLoopTest
    \/ ScrollTick
    \/ RenderAcquire
    \/ RenderFormatRow
    \/ RenderRelease
    \/ RenderRefresh

\* the table of the scroll specification: two frames have been applied and
\* the receive thread waits in bus.recv() for a frame that never comes
ScrollHistory ==
    << [frame |-> [arbitration_id |-> 2, dlc |-> 0, data |-> <<>>],
        time |-> 0],
       [frame |-> [arbitration_id |-> 1, dlc |-> 1, data |-> <<1>>],
        time |-> 1] >>

InitScroll ==
    /\ canData = Replay(ScrollHistory)
    /\ canDataLock = FALSE
    /\ ipc = "recv"
    /\ msg = ScrollHistory[2].frame
    /\ decodedMsg = Decode(ScrollHistory[2].frame)
    /\ currTime = 0
    /\ rpc = "while"
    /\ key = 0
    /\ height = 0
    /\ padY = 0
    /\ ids = <<>>
    /\ body = <<>>
    /\ applied = ScrollHistory
    /\ ticks = 0
    /\ fwdRun = 0

SpecScroll == InitScroll /\ [][NextScroll]_vars

\* both threads under fair scheduling: a thread that can take a step
\* takes it; getch() returns after its timeout; the bus owes no frame
Fairness ==
    /\ WF_vars(IngestOpen)
    /\ WF_vars(IngestAcquire)
    /\ WF_vars(IngestBuildFail)
    /\ WF_vars(IngestInsert)
    /\ WF_vars(IngestUpdateData)
    /\ WF_vars(IngestUpdateSignals)
    /\ WF_vars(IngestUpdateDelta)
    /\ WF_vars(IngestUpdateTime)
    /\ WF_vars(IngestUpdateCount)
    /\ WF_vars(IngestRelease)
    /\ WF_vars(RenderLoopTest)
    /\ WF_vars(BusTick)
    /\ WF_vars(RenderAcquire)
    /\ WF_vars(RenderFormatRow)
    /\ WF_vars(RenderRelease)
    /\ WF_vars(RenderRefresh)

NextFair ==
    \/ IngestOpen
    \/ IngestOpenFail
    \/ FairBusRecv
    \/ IngestRecvFail
    \/ IngestAcquire
    \/ IngestBuildFail
    \/ IngestInsert
    \/ IngestUpdateData
    \/ IngestUpdateSignals
    \/ IngestUpdateDelta
    \/ IngestUpdateTime
    \/ IngestUpdateCount
    \/ IngestRelease
    \/ RenderLoopTest
    \/ BusTick
    \/ RenderAcquire
    \/ RenderFormatRow
    \/ RenderRelease
    \/ RenderRefresh

FairSpec == Init /\ [][NextFair]_vars /\ Fairness

\* the decoding specification: the receive thread alone, fed frames of the
\* known messages 1 and 3 with every payload byte up to MaxByte
DecodeFrames == {[arbitration_id |-> i, dlc |-> 1, data |-> <<b>>] :
                    i \in {1, 3}, b \in 0..MaxByte}

DecodeRecv == IngestRecvOf(MaxDecodeFrames, DecodeFrames)

NextDecode ==
    \/ IngestOpen
    \/ DecodeRecv
    \/ IngestAcquire
    \/ IngestInsert
    \/ IngestUpdateData
    \/ IngestUpdateSignals
    \/ IngestUpdateDelta
    \/ IngestUpdateTime
    \/ IngestUpdateCount
    \/ IngestRelease

SpecDecode == Init /\ [][NextDecode]_vars

(***************************************************************************)
(* Properties.                                                             *)
(***************************************************************************)
Prefix(k) == SubSeq(applied, 1, k)

\* the rows of a table in ascending id order
Rows(table) ==
    LET s == Sorted(DOMAIN table) IN [i \in 1..Len(s) |-> table[s[i]]]

\* the history entries of one id, in order
RECURSIVE OfId(_, _)
OfId(h, id) ==
    IF h = <<>> THEN <<>>
    ELSE IF Head(h).frame.arbitration_id = id
         THEN <<Head(h)>> \o OfId(Tail(h), id)
         ELSE OfId(Tail(h), id)

\* TRUE while CanMsg.update is half way through the record of id
Updating(id) ==
    /\ ipc \in {"upd_signals", "upd_delta", "upd_time", "upd_count"}
    /\ msg.arbitration_id = id

\* C1: every row the render loop has read is, in all its fields (payload,
\* signals, count, time, delta), the record one applied frame left: no row
\* mixes fields written by different applies.
SnapshotAtomicity ==
    \A i \in 1..Len(body) :
        \E k \in 1..Len(applied) :
            LET t == Replay(Prefix(k))
            IN  /\ body[i].id \in DOMAIN t
                /\ body[i] = t[body[i].id]

\* C1 witness: the render loop holds a row that was updated at least once
\* while the receive thread waits for the lock with a further frame.
SnapshotAtomicityWitness ==
    /\ rpc = "format"
    /\ ipc = "acquire"
    /\ \E i \in 1..Len(body) : body[i].count >= 2

\* C2: the body of one render tick is the whole table as it was after some
\* prefix of the applied frames: all rows, of one instant.
ConsistentCut ==
    rpc = "refresh" =>
        \E k \in 0..Len(applied) : body = Rows(Replay(Prefix(k)))

\* C2 witness: a body of two rows is about to be shown while a third frame
\* has already changed the table: the body is the table of an earlier instant.
ConsistentCutWitness ==
    /\ rpc = "refresh"
    /\ Len(body) = 2
    /\ Len(applied) = 3
    /\ body # Rows(canData)

Unknown(m) == m.arbitration_id \notin DOMAIN dbcJson

\* the receive thread holds a received frame (lines 109-134)
HoldsFrame == ipc \in {"acquire", "apply", "upd_signals", "upd_delta",
                       "upd_time", "upd_count", "release"}

\* C3: a frame whose id the layout store does not know decodes to name None
\* and no signals; once it is applied the table holds a record of its id
\* with its payload, no name and no signals; and the receive thread goes on
\* to the next bus.recv().
UnknownFrameApplied ==
    /\ [](HoldsFrame /\ Unknown(msg) =>
            /\ decodedMsg.name = None
            /\ decodedMsg.raw_data = msg.data
            /\ canetonSignalsToObj(decodedMsg.id, decodedMsg.signals) = <<>>)
    /\ [](ipc = "release" /\ Unknown(msg) =>
            /\ msg.arbitration_id \in DOMAIN canData
            /\ canData[msg.arbitration_id].data = msg.data
            /\ canData[msg.arbitration_id].name = None
            /\ canData[msg.arbitration_id].signals = <<>>)
    /\ [][ipc = "release" /\ Unknown(msg) /\ ipc' # ipc =>
            /\ ipc' = "recv"
            /\ canData' = canData]_vars

\* C3 witness: a frame of an unknown id has updated the record a first frame
\* of that id created, with another payload.
UnknownFrameAppliedWitness ==
    /\ ipc = "release"
    /\ Unknown(msg)
    /\ canData[msg.arbitration_id].count = 2
    /\ applied[1].frame.arbitration_id = msg.arbitration_id
    /\ applied[1].frame.data # msg.data

\* C4: a failure of bus.recv() ends the process: once the receive thread
\* has died of it, the curses loop exits.
RecvFailureExitsProcess == (ipc = "recvfailed") ~> (rpc = "exited")

\* C5: after every tick the scroll offset is in 0..max(0, V - H), for the
\* height H of that tick, also when H is greater than V.
OffsetClamped ==
    /\ 0 <= padY
    /\ padY <= Max(0, padHeight - height)

\* C5 witness: a tick with a page-forward key at a height above V.
OffsetClampedWitness ==
    /\ rpc = "acquire"
    /\ height > padHeight
    /\ key = KEY_SPACE

\* ceil(a / b) for a >= 0 and b > 0
CeilDiv(a, b) == (a + b - 1) \div b

\* a tick of the curses loop: the step that reads the size and the key
IsTick == rpc = "poll" /\ rpc' = "acquire"

\* C6: at a constant height H, 0 < H <= V, after ceil((V - H) / H)
\* page-forward ticks in a row the offset is exactly V - H, and a further
\* page-forward or Down tick at that height leaves it there.
PageForwardReachesEnd ==
    /\ [](/\ 0 < height
          /\ height <= padHeight
          /\ fwdRun > 0
          /\ fwdRun >= CeilDiv(padHeight - height, height)
          => padY = padHeight - height)
    /\ [][/\ IsTick
          /\ height' = height
          /\ 0 < height
          /\ height <= padHeight
          /\ padY = padHeight - height
          /\ key' \in PageFwdKeys \cup {KEY_DOWN}
          => padY' = padHeight - height]_vars

\* C6 witness: four page-forward ticks in a row at height 1250; the third
\* reached V - H = 3750 and the fourth left it there.
PageForwardReachesEndWitness ==
    /\ height = 1250
    /\ fwdRun = 4
    /\ padY = 3750

\* C7: the count of a record is the number of frames of its id applied so
\* far, and a record its first frame created has count 1 and delta 0.
CountIsFramesApplied ==
    \A id \in BusIds :
        /\ id \in DOMAIN canData <=> Len(OfId(applied, id)) >= 1
        /\ id \in DOMAIN canData =>
              /\ canData[id].count = Len(OfId(applied, id))
              /\ (canData[id].count = 1 /\ ~Updating(id)
                    => canData[id].delta = 0)

\* C7 witness: the same frame was applied twice and the count is 2.
CountIsFramesAppliedWitness ==
    /\ Len(applied) >= 2
    /\ applied[1].frame = applied[2].frame
    /\ canData[applied[1].frame.arbitration_id].count = 2

\* C8: outside an update, a record updated at least once has delta = 1000 *
\* (time of the last apply of its id - time of the apply of its id before),
\* which is >= 0 when the clock did not step back between them, and every
\* record has the time of the last apply of its id.
DeltaIsLastInterval ==
    \A id \in DOMAIN canData :
        LET h == OfId(applied, id)
            n == Len(h)
        IN  ~Updating(id) =>
              /\ canData[id].time = h[n].time
              /\ n >= 2 =>
                    /\ canData[id].delta = (h[n].time - h[n - 1].time) * 1000
                    /\ (h[n - 1].time <= h[n].time => canData[id].delta >= 0)

\* C8 witness: a record updated one second after it was created, a frame of
\* another id applied in between at another time.
DeltaIsLastIntervalWitness ==
    /\ Len(applied) = 3
    /\ applied[1].frame.arbitration_id = applied[3].frame.arbitration_id
    /\ applied[2].frame.arbitration_id # applied[1].frame.arbitration_id
    /\ applied[1].time = 0
    /\ applied[2].time = 1
    /\ applied[3].time = 1
    /\ ipc = "release"
    /\ canData[applied[1].frame.arbitration_id].delta = 1000

\* C9: no step removes an id from the table.
NoEntryRemoved == [][DOMAIN canData \subseteq DOMAIN canData']_vars

\* C9 witness: a second id was inserted beside the first, after a quit key
\* was read.
NoEntryRemovedWitness ==
    /\ Cardinality(DOMAIN canData) = 2
    /\ key \in QuitKeys
    /\ ipc = "release"
    /\ Len(applied) = 2

\* C10: once a quit key is read the curses loop polls no further key, and
\* it exits, whatever the receive thread does.
QuitTerminates ==
    /\ [][(key \in QuitKeys) => ~IsTick]_vars
    /\ (key \in QuitKeys) ~> (rpc = "exited")

\* C10 witness: the curses loop has exited on Escape while the receive
\* thread is inside an update.
QuitTerminatesWitness ==
    /\ rpc = "exited"
    /\ key = KEY_ESC
    /\ ipc = "upd_delta"

\* the keys lines 163-170 give a meaning to
MappedKeys == {KEY_DOWN, KEY_UP} \cup PageFwdKeys \cup PageBackKeys

\* C11 as stated: a tick that reads no key, or a key without a binding,
\* leaves the scroll offset as it was.
UnmappedKeyKeepsOffset ==
    [][IsTick /\ key' \notin MappedKeys => padY' = padY]_vars

\* C11 amended: such a tick leaves the offset as it was when the offset is at
\* most max(0, V - H) for the height H of the tick, and lowers it to
\* max(0, V - H) otherwise (the terminal has grown since the last tick).
UnmappedKeyClampsOnly ==
    [][IsTick /\ key' \notin MappedKeys =>
          padY' = IF padY <= Max(0, padHeight - height')
                  THEN padY
                  ELSE Max(0, padHeight - height')]_vars

\* C11 witness: a tick that read no key (shown as '0') at height 2000 with
\* the offset 1250 that a page forward at height 1250 had set.
UnmappedKeyClampsOnlyWitness ==
    /\ rpc = "acquire"
    /\ key = KEY_ZERO
    /\ height = 2000
    /\ padY = 1250

\* C12 as stated: when the bus cannot be opened or the layout file cannot be
\* loaded (lines 103-104 raise) the curses loop has not started a tick, and
\* it never does.
OpenFailureBeforeAnyLoop ==
    ipc = "openfailed" => rpc = "while" /\ key = 0

\* the frame that was last applied to the record of id
LastFrame(id) == LET h == OfId(applied, id) IN h[Len(h)].frame

\* the layout's entry of a signal of message id
LayoutSignal(id, name) ==
    LET sigs == dbcJson[id].signals
    IN  sigs[CHOOSE j \in 1..Len(sigs) : sigs[j].name = name]

\* the integer a value in tenths truncates to, toward zero
TruncTowardZero(v) ==
    CHOOSE n \in -100..100 :
        IF v >= 0 THEN 10 * n <= v /\ v < 10 * n + 10
        ELSE 10 * n >= v /\ v > 10 * n - 10

\* the base-10 string of a one-digit integer
Shown(n) == IF n < 0 THEN <<"-", Digit(-n)>> ELSE <<Digit(n)>>

\* C13: a stored signal shows the enum table's string when the layout has a
\* table for it and the base-10 string of its decoded value, truncated
\* toward zero, is a key of the table; in every other case (no table, an
\* empty table, no such key) it shows the decoded number unchanged.
EnumSubstitution ==
    \A id \in DOMAIN canData \cap DOMAIN dbcJson :
        ~Updating(id) /\ ~DecodeRaises(LastFrame(id)) =>
            \A i \in 1..Len(canData[id].signals) :
                LET s == canData[id].signals[i]
                    e == LayoutSignal(id, s.name)
                    raw == message_decode(LastFrame(id)).signals
                    v == raw[CHOOSE j \in 1..Len(raw) :
                                ~raw[j].none /\ raw[j].name = s.name].value
                    k == Shown(TruncTowardZero(v))
                IN  IF e.hasEnums /\ k \in DOMAIN e.enums
                    THEN s.kind = "str" /\ s.str = e.enums[k]
                    ELSE s.kind = "num" /\ s.num = v

\* C13 witness: a frame decoding "temp" to -0.5 was applied, and the record
\* shows the string of key "0" for it, beside the number of a signal whose
\* table is empty and the number 3.0 of a signal whose table has no "3".
EnumSubstitutionWitness ==
    /\ ipc = "release"
    /\ msg = [arbitration_id |-> 3, dlc |-> 1, data |-> <<2>>]
    /\ canData[3].count = 2
    /\ \E i \in 1..Len(canData[3].signals) :
          LET s == canData[3].signals[i]
          IN  s.name = "temp" /\ s.kind = "str" /\ s.str = "MILD"
    /\ \E i \in 1..Len(canData[3].signals) :
          LET s == canData[3].signals[i]
          IN  s.name = "fan" /\ s.kind = "num" /\ s.num = 20
    /\ \E i \in 1..Len(canData[3].signals) :
          LET s == canData[3].signals[i]
          IN  s.name = "gear" /\ s.kind = "str" /\ s.str = "HIGH"

\* C14: the signals of a record whose last frame decoded are the entries of
\* the decoder's list that have a value, as many and in the same order: the
\* p-th stored signal is built from the p-th entry that is not None.
SignalsAreKeptEntries ==
    \A id \in DOMAIN canData \cap DOMAIN dbcJson :
        ~Updating(id) /\ ~DecodeRaises(LastFrame(id)) =>
            LET raw == message_decode(LastFrame(id)).signals
                K == {j \in 1..Len(raw) : ~raw[j].none}
                stored == canData[id].signals
            IN  /\ Len(stored) = Cardinality(K)
                /\ \A j \in K :
                      LET p == Cardinality({k \in K : k <= j})
                      IN  /\ stored[p].name = raw[j].name
                          /\ stored[p].unit = raw[j].unit
                          /\ stored[p].kind = "num" =>
                                 stored[p].num = raw[j].value

\* C14 witness: the decoder's list of the last frame had None in its second
\* place, and the record holds the three other signals in their order.
SignalsAreKeptEntriesWitness ==
    /\ ipc = "release"
    /\ msg = [arbitration_id |-> 3, dlc |-> 1, data |-> <<0>>]
    /\ message_decode(msg).signals[2].none
    /\ Len(canData[3].signals) = 3
    /\ canData[3].signals[1].name = "temp"
    /\ canData[3].signals[2].name = "fan"
    /\ canData[3].signals[3].name = "gear"

\* the receive thread is between acquire() and release() (lines 124-133)
IngestInSection == ipc \in {"apply", "upd_signals", "upd_delta", "upd_time",
                            "upd_count", "release"}

\* the curses loop is between acquire() and release() (line 193)
RenderInSection == rpc = "format"

\* the receive thread waits in bus.recv(), or has ended for whatever reason
IngestSuspended == ipc \in {"recv", "openfailed", "recvfailed", "buildfailed"}

\* C15 as stated: no loop suspends with the lock: whenever the receive
\* thread waits in recv or has ended, an error raised while a record is
\* built or applied included, it does not hold the lock, and whenever the
\* curses loop waits for a key it does not hold it; the lock is then free
\* unless the other loop is inside its own section.
LockFreeWhenSuspended ==
    /\ IngestSuspended /\ ~RenderInSection => ~canDataLock
    /\ rpc = "poll" /\ ~IngestInSection => ~canDataLock

\* C16 as stated: the receive thread never stalls the curses loop: unless a
\* quit key is read, the loop completes tick after tick for ever, each one
\* drawing the table, whether the receive thread waits in recv or not and
\* whether a key is pressed or not.
RenderNeverStalled ==
    <>(key \in QuitKeys) \/ []<>(rpc = "refresh")

\* C17: the frames of one id are applied in the order they were received:
\* the receive thread applies the frame it holds, which is the one received
\* last, and receives the next frame only when the one it held is in the
\* history; and outside an update the payload and the signals of every
\* record are those of the frame of its id that was applied last.
AppliedInReceiveOrder ==
    /\ [](\A id \in DOMAIN canData :
            ~Updating(id) =>
                LET d == Decode(LastFrame(id))
                IN  /\ canData[id].data = LastFrame(id).data
                    /\ canData[id].signals =
                          canetonSignalsToObj(d.id, d.signals))
    /\ [][applied' # applied =>
            applied' = applied \o <<applied'[Len(applied')]>>
            /\ applied'[Len(applied')].frame = msg]_vars
    /\ [][ipc = "recv" /\ ipc' = "acquire" =>
            \/ applied = <<>> /\ msg = NoMsg
            \/ applied # <<>> /\ applied[Len(applied)].frame = msg]_vars

\* C17 witness: three frames of id 1 were applied, the second with another
\* payload than the first and the third, and the record shows the third.
AppliedInReceiveOrderWitness ==
    /\ ipc = "release"
    /\ Len(OfId(applied, 1)) = 3
    /\ applied[1].frame.data = <<1>>
    /\ applied[2].frame.data = <<>>
    /\ applied[3].frame.data = <<1>>
    /\ canData[1].data = <<1>>
    /\ canData[1].signals # <<>>

\* C18: the receive thread and the curses loop are never both inside their
\* table sections, and whoever is inside holds the one lock.
MutualExclusion ==
    /\ ~(IngestInSection /\ RenderInSection)
    /\ IngestInSection \/ RenderInSection => canDataLock

\* C18 witness: the receive thread is half way through an update while the
\* curses loop waits at its acquire.
MutualExclusionWitness ==
    /\ ipc = "upd_time"
    /\ rpc = "acquire"
    /\ canDataLock

\* C19: a tick at the height of the tick before moves the offset o to
\* o + d clamped into [0, max(0, padHeight - H)], d being +1 for Down, -1 for
\* Up, +H for Right, Page-Down and Space, -H for Left and Page-Up; Up and
\* page backward at offset 0 leave it at 0.
ScrollStep ==
    [][IsTick /\ height' = height /\ key' \in MappedKeys =>
          LET H == height'
              d == CASE key' = KEY_DOWN -> 1
                     [] key' = KEY_UP -> -1
                     [] key' \in {KEY_RIGHT, KEY_NPAGE, KEY_SPACE} -> H
                     [] key' \in {KEY_LEFT, KEY_PPAGE} -> -H
              hi == IF padHeight > H THEN padHeight - H ELSE 0
              t == padY + d
          IN  /\ padY' = IF t < 0 THEN 0 ELSE IF t > hi THEN hi ELSE t
              /\ padY = 0 /\ key' \in {KEY_UP, KEY_LEFT, KEY_PPAGE} =>
                    padY' = 0]_vars

\* C19 witness: Up was read at offset 1250, one page down at height 1250.
ScrollStepWitness ==
    /\ rpc = "acquire"
    /\ key = KEY_UP
    /\ height = 1250
    /\ padY = 1249
    /\ ticks = 2

\* C20: the name and the id of a record never change once the record is in
\* the table: they are the ones its first frame decoded to, whatever the
\* later frames of the id decode to.
NameFixedAtCreation ==
    /\ [](\A id \in DOMAIN canData :
            LET first == OfId(applied, id)[1].frame
            IN  /\ canData[id].id = id
                /\ canData[id].name = Decode(first).name)
    /\ [][\A id \in DOMAIN canData :
            /\ id \in DOMAIN canData'
            /\ canData'[id].name = canData[id].name
            /\ canData'[id].id = canData[id].id]_vars

\* C20 witness: the record of id 1 was created by a frame the decoder
\* rejected and updated by one it decoded: it has signals and no name.
NameFixedAtCreationWitness ==
    /\ ipc = "release"
    /\ 1 \in DOMAIN canData
    /\ canData[1].name = None
    /\ canData[1].count = 2
    /\ canData[1].signals # <<>>
====
